---- MODULE Spec2Model ----
(***************************************************************************)
(* Model of generate-third-mapping.js: the line parser (parseLine), the    *)
(* run driver (main) and the serializer.  Text is modelled as sequences of *)
(* UTF-16 code units (A = 65 ... L = 76, '3' = 51, ' ' = 32, ...), so the   *)
(* regular expressions, trim, split, sort and JSON.stringify are computed  *)
(* on characters, as the code computes them.                               *)
(***************************************************************************)
EXTENDS Integers, Sequences, FiniteSets, TLC

\* The element of a one-element set.  Used as The({F(x) : x \in {e}}) to
\* compute e once where F reads it many times.
The(S) == CHOOSE x \in S : TRUE

----------------------------------------------------------------------------
(* Character classes of the JavaScript regular expressions and of trim().  *)

\* [A-L]
IsGroupLetter(c) == c >= 65 /\ c <= 76

\* \w: 0-9, A-Z, _, a-z
IsWord(c) ==
  \/ (c >= 48 /\ c <= 57)
  \/ (c >= 65 /\ c <= 90)
  \/ c = 95
  \/ (c >= 97 /\ c <= 122)

\* \d
IsDigit(c) == c >= 48 /\ c <= 57

\* the white space trim() removes: tab, LF, VT, FF, CR, space
IsSpace(c) == (c >= 9 /\ c <= 13) \/ c = 32

\* \b at position p of s: exactly one of s[p-1], s[p] is a word character
\* (a position outside the string counts as a non-word character).
WordAt(s, p) == p >= 1 /\ p <= Len(s) /\ IsWord(s[p])

WordBoundary(s, p) == WordAt(s, p - 1) # WordAt(s, p)

----------------------------------------------------------------------------
(* String.prototype.trim                                                   *)

RECURSIVE FirstKept(_, _)
FirstKept(s, i) ==
  IF i > Len(s) \/ ~IsSpace(s[i]) THEN i ELSE FirstKept(s, i + 1)

RECURSIVE LastKept(_, _)
LastKept(s, i) ==
  IF i < 1 \/ ~IsSpace(s[i]) THEN i ELSE LastKept(s, i - 1)

Trim(s) == SubSeq(s, FirstKept(s, 1), LastKept(s, Len(s)))

----------------------------------------------------------------------------
(* trimmed.match(/\b3[A-L]\b/g): leftmost non-overlapping matches.         *)

\* /\b3[A-L]/g, the pattern without its closing \b
ThirdAtNoTrailingBoundary(s, i) ==
  /\ i + 1 <= Len(s)
  /\ WordBoundary(s, i)
  /\ s[i] = 51
  /\ IsGroupLetter(s[i + 1])

ThirdAt(s, i) ==
  /\ i + 1 <= Len(s)
  /\ WordBoundary(s, i)
  /\ s[i] = 51
  /\ IsGroupLetter(s[i + 1])
  /\ WordBoundary(s, i + 2)

RECURSIVE ScanThirds(_, _)
ScanThirds(s, i) ==
  IF i > Len(s) THEN <<>>
  ELSE IF ThirdAt(s, i) THEN <<SubSeq(s, i, i + 1)>> \o ScanThirds(s, i + 2)
  ELSE ScanThirds(s, i + 1)

\* match() yields null when nothing matches; the code treats null and a
\* short array alike, so the empty sequence stands for both.
ThirdMatches(s) == ScanThirds(s, 1)

\* thirdMatches.slice(-8)
\* slice(0, 8)
LastEightFirst(m) == SubSeq(m, 1, IF Len(m) > 8 THEN 8 ELSE Len(m))
LastEight(m) == SubSeq(m, IF Len(m) > 8 THEN Len(m) - 7 ELSE 1, Len(m))

----------------------------------------------------------------------------
(* The two extractions of standalone group letters.                        *)

\* /(?<!\d)\b([A-L])\b/g at position i
LookbehindAt(s, i) ==
  /\ ~(i > 1 /\ IsDigit(s[i - 1]))
  /\ WordBoundary(s, i)
  /\ IsGroupLetter(s[i])
  /\ WordBoundary(s, i + 1)

\* /([A-L])\b/g, the pattern without its opening \b
RoughAtNoLeadingBoundary(s, i) ==
  /\ IsGroupLetter(s[i])
  /\ WordBoundary(s, i + 1)

\* /\b([A-L])\b/g at position i (the catch branch)
RoughAt(s, i) ==
  /\ WordBoundary(s, i)
  /\ IsGroupLetter(s[i])
  /\ WordBoundary(s, i + 1)

RECURSIVE ScanLookbehind(_, _)
ScanLookbehind(s, i) ==
  IF i > Len(s) THEN <<>>
  ELSE IF LookbehindAt(s, i) THEN <<s[i]>> \o ScanLookbehind(s, i + 1)
  ELSE ScanLookbehind(s, i + 1)

RECURSIVE ScanRough(_, _)
ScanRough(s, i) ==
  IF i > Len(s) THEN <<>>
  ELSE IF RoughAt(s, i) THEN <<s[i]>> \o ScanRough(s, i + 1)
  ELSE ScanRough(s, i + 1)

\* try { matchAll(lookbehind) } catch { matchAll(rough) }: lb tells whether
\* the try branch completes.  main runs on an engine that supports
\* lookbehind (one that does not rejects the script when it compiles the
\* regular expression literal, before main starts).
GroupMatches(s, lb) == IF lb THEN ScanLookbehind(s, 1) ELSE ScanRough(s, 1)

----------------------------------------------------------------------------
(* uniqueInOrder, Array.prototype.sort (default comparison: code units).   *)

RECURSIVE UniqueFrom(_, _, _)
UniqueFrom(arr, i, out) ==
  IF i > Len(arr) THEN out
  ELSE IF \E j \in 1..Len(out) : out[j] = arr[i]
       THEN UniqueFrom(arr, i + 1, out)
       ELSE UniqueFrom(arr, i + 1, Append(out, arr[i]))

\* no element dropped
uniqueInOrderKeepAll(arr) == arr
uniqueInOrder(arr) == The({UniqueFrom(a, 1, <<>>) : a \in {arr}})

RECURSIVE InsertSorted(_, _)
InsertSorted(x, s) ==
  IF s = <<>> THEN <<x>>
  ELSE IF x <= Head(s) THEN <<x>> \o s
  ELSE <<Head(s)>> \o InsertSorted(x, Tail(s))

RECURSIVE SortRec(_)
SortRec(s) == IF s = <<>> THEN <<>> ELSE InsertSorted(Head(s), SortRec(Tail(s)))

\* the array left in its order
SortUnsorted(s) == s
Sort(s) == SortRec(s)

----------------------------------------------------------------------------
(* parseLine                                                               *)

\* "1A","1B","1D","1E","1G","1I","1K","1L"
SLOTS == << <<49, 65>>, <<49, 66>>, <<49, 68>>, <<49, 69>>,
            <<49, 71>>, <<49, 73>>, <<49, 75>>, <<49, 76>> >>

NullResult == [kind |-> "null", key |-> <<>>, assignment |-> <<>>, err |-> <<>>]

\* return null in place of the throw
ThrowAsNull(line) == NullResult

ThrowResult(line) ==
  [kind |-> "throw", key |-> <<>>, assignment |-> <<>>, err |-> line]

\* the object literal filled by the loop over SLOTS: its properties in
\* insertion order, as <<slot, value>> pairs
Assignment(thirds) == [i \in 1..Len(SLOTS) |-> <<SLOTS[i], thirds[i]>>]

ThirdLetters(thirds) == [i \in 1..Len(thirds) |-> thirds[i][2]]

ResolveGroups(direct, thirds) ==
  IF Len(direct) # 8 THEN uniqueInOrder(ThirdLetters(thirds)) ELSE direct

\* parseLine from the point where thirds (the last 8 matches) is known
ParseThirds(line, trimmed, thirds, lb) ==
  The({ IF Len(groups) # 8 THEN ThrowResult(line)
        ELSE [kind |-> "row", key |-> Sort(groups),
              assignment |-> Assignment(thirds), err |-> <<>>] :
        groups \in {ResolveGroups(uniqueInOrder(GroupMatches(trimmed, lb)), thirds)} })

\* parseLine from the point where trimmed is known
ParseTrimmed(line, trimmed, lb) ==
  IF trimmed = <<>> THEN NullResult
  ELSE The({ IF Len(thirdMatches) < 8 THEN NullResult
             ELSE The({ParseThirds(line, trimmed, thirds, lb) :
                       thirds \in {LastEight(thirdMatches)}}) :
             thirdMatches \in {ThirdMatches(trimmed)} })

parseLine(line, lb) ==
  The({ParseTrimmed(line, trimmed, lb) : trimmed \in {Trim(line)}})

----------------------------------------------------------------------------
(* raw.split(/\r?\n/)                                                      *)

\* the pieces of raw[lo..hi] between the \n characters (by halving, so that
\* the evaluation stays shallow on long files)
RECURSIVE SplitAtNewlines(_, _, _)
SplitAtNewlines(raw, lo, hi) ==
  IF lo > hi THEN << <<>> >>
  ELSE IF lo = hi THEN (IF raw[lo] = 10 THEN << <<>>, <<>> >> ELSE << <<raw[lo]>> >>)
  ELSE LET mid == (lo + hi) \div 2
           l == SplitAtNewlines(raw, lo, mid)
           r == SplitAtNewlines(raw, mid + 1, hi)
       IN  SubSeq(l, 1, Len(l) - 1) \o << l[Len(l)] \o r[1] >> \o Tail(r)

\* the separator \r?\n takes the \r that stands right before a \n
StripCr(piece) ==
  IF piece # <<>> /\ piece[Len(piece)] = 13
  THEN SubSeq(piece, 1, Len(piece) - 1) ELSE piece

SplitLines(raw) ==
  The({ [i \in 1..Len(pieces) |->
           IF i < Len(pieces) THEN StripCr(pieces[i]) ELSE pieces[i]] :
        pieces \in {SplitAtNewlines(raw, 1, Len(raw))} })

----------------------------------------------------------------------------
(* mapping[result.key] = result.assignment on an object whose properties   *)
(* keep insertion order: a sequence of <<key, assignment>> pairs.          *)

\* a property added even when the key is there
PutAppendAlways(m, k, a) == Append(m, <<k, a>>)
Put(m, k, a) ==
  IF \E i \in 1..Len(m) : m[i][1] = k
  THEN [i \in 1..Len(m) |-> IF m[i][1] = k THEN <<k, a>> ELSE m[i]]
  ELSE Append(m, <<k, a>>)

----------------------------------------------------------------------------
(* JSON.stringify(mapping, null, 2)                                        *)

RECURSIVE JoinRange(_, _, _, _)
JoinRange(parts, sep, lo, hi) ==
  IF lo > hi THEN <<>>
  ELSE IF lo = hi THEN parts[lo]
  ELSE LET mid == (lo + hi) \div 2
       IN  JoinRange(parts, sep, lo, mid) \o sep \o JoinRange(parts, sep, mid + 1, hi)

Join(parts, sep) == The({JoinRange(p, sep, 1, Len(p)) : p \in {parts}})

Quote(s) == <<34>> \o s \o <<34>>

\* one property of an object at nesting depth d: indent, "name": value
Property(d, name, value) ==
  [i \in 1..(2 * d) |-> 32] \o Quote(name) \o <<58, 32>> \o value

\* an object at nesting depth d whose properties are already rendered
Object(d, props) ==
  IF props = <<>> THEN <<123, 125>>
  ELSE <<123, 10>> \o Join(props, <<44, 10>>) \o <<10>>
       \o [i \in 1..(2 * d) |-> 32] \o <<125>>

StringifyAssignment(a) ==
  Object(1, [i \in 1..Len(a) |-> Property(2, a[i][1], Quote(a[i][2]))])

Stringify(m) ==
  The({ Object(0, props) :
        props \in {[i \in 1..Len(m) |-> Property(1, m[i][1], StringifyAssignment(m[i][2]))]} })

\* fs.writeFileSync replaces the content of the file
\* fs.appendFileSync
WriteFileAppending(old, data) == old \o data
WriteFile(old, data) == data

\* C(12,8)
expected == 495

\* the comparison never true
MismatchNever(n) == FALSE
Mismatch(n) == n # expected

----------------------------------------------------------------------------
(* Inputs: the lines and files the runs are explored on.                   *)

\* most lines of an explored multi-line file
MaxLines == 3
\* most "3X" tokens put in front of the tokens of a generated line
MaxExtraThirds == 2
\* most runs of the program on the same input file
MaxRuns == 2

Chars(letters) == [i \in 1..Len(letters) |-> <<letters[i]>>]

Thirds(letters) == [i \in 1..Len(letters) |-> <<51, letters[i]>>]

\* prefix, group letters joined by gsep, mid, "3X" tokens joined by tsep, suffix
MkLine(pre, gs, gsep, mid, ts, tsep, suf) ==
  pre \o Join(Chars(gs), gsep) \o mid \o Join(Thirds(ts), tsep) \o suf

\* "", " 12 "
Prefixes == {<<>>, <<32, 49, 50, 32>>}

GroupSeqs ==
  { <<65, 66, 68, 69, 71, 73, 75, 76>>,        \* A B D E G I K L
    <<76, 75, 74, 73, 72, 71, 70, 69>>,        \* L K J I H G F E
    <<65, 66, 67, 68, 69, 70, 71>>,            \* seven letters
    <<65, 66, 67, 68, 69, 70, 71, 72, 73>>,    \* nine letters
    <<65, 65, 66, 67, 68, 69, 70, 71>>,        \* eight with a repeat
    <<69, 70, 71, 72, 73, 74, 75, 76, 69>>,    \* nine with a repeat
    <<>> }

\* " ", "" (letters glued into one word), " 1" (slot-like labels 1A 1B ...),
\* "_" (letters joined by a word character)
GroupSeps == {<<32>>, <<>>, <<32, 49>>, <<95>>}

\* " | ", ""
Mids == {<<32, 124, 32>>, <<>>}

ThirdBases ==
  { <<65, 66, 68, 69, 71, 73, 75, 76>>,        \* 3A 3B 3D 3E 3G 3I 3K 3L
    <<69, 74, 73, 70, 72, 71, 76, 75>>,        \* 3E 3J 3I 3F 3H 3G 3L 3K
    <<69, 74, 73, 70, 72, 71, 76, 69>>,        \* 3E twice
    <<65, 66, 68, 69, 71, 73, 75>> }           \* seven tokens

ExtraThirds(k) == [i \in 1..k |-> <<67, 65, 76, 69>>[((i - 1) % 4) + 1]]

\* " ", " C", "x"
Suffixes == {<<32>>, <<32, 67>>, <<120>>}

\* the generated lines; then the blank line, a line of white space, and
\* lines whose tokens are glued into one word or separated by tabs
RichLines ==
  { MkLine(pre, gs, gsep, mid, ExtraThirds(k) \o ts, <<32>>, suf) :
      pre \in Prefixes, gs \in GroupSeqs, gsep \in GroupSeps, mid \in Mids,
      ts \in ThirdBases, k \in 0..MaxExtraThirds, suf \in Suffixes }
  \cup { <<>>, <<32, 9>> }
  \cup { MkLine(<<>>, <<65, 66, 68, 69, 71, 73, 75, 76>>, <<32>>, <<32>>, ts, tsep, <<>>) :
           ts \in ThirdBases, tsep \in {<<>>, <<9>>} }

RowLine(n, gs, ts) == MkLine(<<n, 32, 124, 32>>, gs, <<32>>, <<32, 124, 32>>, ts, <<32>>, <<>>)

SmallLines ==
  { \* 1 | A B D E G I K L | 3A 3B 3D 3E 3G 3I 3K 3L
    RowLine(49, <<65, 66, 68, 69, 71, 73, 75, 76>>, <<65, 66, 68, 69, 71, 73, 75, 76>>),
    \* 2 | A B D E G I K L | 3E 3J 3I 3F 3H 3G 3L 3K
    RowLine(50, <<65, 66, 68, 69, 71, 73, 75, 76>>, <<69, 74, 73, 70, 72, 71, 76, 75>>),
    \* 3E 3J 3I 3F 3H 3G 3L 3K
    MkLine(<<>>, <<>>, <<>>, <<>>, <<69, 74, 73, 70, 72, 71, 76, 75>>, <<32>>, <<>>),
    \* 1A 1B 1D 1E 1G 1I 1K 1L
    Join(SLOTS, <<32>>),
    \* 3E 3J 3I 3F 3H 3G 3L 3E
    MkLine(<<>>, <<>>, <<>>, <<>>, <<69, 74, 73, 70, 72, 71, 76, 69>>, <<32>>, <<>>) }

\* the lines joined by \n, or ended each by \r\n
SmallFiles ==
  UNION { {Join(ls, <<10>>), Join(ls, <<13, 10>>) \o <<13, 10>>} :
          ls \in UNION {[1..n -> SmallLines] : n \in 0..MaxLines} }

RichFiles == RichLines

\* the ascending k-letter combinations of the letters lo..L, in
\* lexicographic order
RECURSIVE Combos(_, _)
Combos(lo, k) ==
  IF k = 0 THEN << <<>> >>
  ELSE IF 76 - lo + 1 < k THEN <<>>
  ELSE LET rest == Combos(lo + 1, k - 1)
       IN  [i \in 1..Len(rest) |-> <<lo>> \o rest[i]] \o Combos(lo + 1, k)

Rotate(s, r) == [i \in 1..Len(s) |-> s[((i - 1 + r) % Len(s)) + 1]]

\* the full table: one row per combination of 8 of the 12 groups, each
\* with its groups in another order as its tokens
TableLines ==
  LET cs == Combos(65, 8)
  IN  [i \in 1..Len(cs) |-> RowLine(49 + (i % 9), cs[i], Rotate(cs[i], i % 8))]

\* the pasted table: the header of slots, rows, a final newline
TableFile(rows) == Join(<<Join(SLOTS, <<32>>)>> \o rows, <<10>>) \o <<10>>

\* the full table, the table without its last row, and the table with its
\* first row given again under another assignment
TableFiles ==
  { TableFile(TableLines),
    TableFile(SubSeq(TableLines, 1, Len(TableLines) - 1)),
    TableFile(Append(TableLines,
                     RowLine(49, <<65, 66, 67, 68, 69, 70, 71, 72>>,
                                 <<72, 71, 70, 69, 68, 67, 66, 65>>))) }

\* a third-mapping.json left by an earlier use of the tool
StaleOutput == <<123, 125>>

----------------------------------------------------------------------------
(* State                                                                   *)

VARIABLES
  inputExists,    \* fs.existsSync(INPUT)
  inputContent,   \* the text of third-mapping-table.txt
  outputExists,   \* whether third-mapping.json exists
  outputContent,  \* the text of third-mapping.json
  pc,             \* position in main: start, loop, report, exited
  lines,          \* raw.split(/\r?\n/)
  idx,            \* index of the next element of lines (1-based)
  mapping,        \* the aggregate, properties in insertion order
  parsedCount,
  line,           \* the line handed to parseLine last
  result,         \* what parseLine did on it
  console,        \* the messages printed, in order
  exitCode,       \* -1 while the process runs
  wrote,          \* writeFileSync was called in this run
  run,            \* number of the current run on this input
  outputAtStart   \* the output file as it was when this run started

vars == <<inputExists, inputContent, outputExists, outputContent,
          pc, lines, idx, mapping, parsedCount, line, result, console,
          exitCode, wrote, run, outputAtStart>>

env == <<inputExists, inputContent>>

Msg(stream, msg, val) == [stream |-> stream, msg |-> msg, val |-> val]

\* the state of a process that has just started, in a directory env
\* describes
Fresh ==
  /\ outputContent = IF outputExists THEN StaleOutput ELSE <<>>
  /\ pc = "start"
  /\ lines = <<>>
  /\ idx = 0
  /\ mapping = <<>>
  /\ parsedCount = 0
  /\ line = <<>>
  /\ result = NullResult
  /\ console = <<>>
  /\ exitCode = -1
  /\ wrote = FALSE
  /\ run = 1
  /\ outputAtStart = [exists |-> outputExists, content |-> outputContent]

\* runs on no input file, on short files and on files of one generated line
Init ==
  /\ \/ /\ inputExists = FALSE
        /\ inputContent = <<>>
        /\ outputExists \in BOOLEAN
     \/ /\ inputExists = TRUE
        /\ inputContent \in SmallFiles
        /\ outputExists \in BOOLEAN
     \/ /\ inputExists = TRUE
        /\ inputContent \in RichFiles
        /\ outputExists = FALSE
  /\ Fresh

\* runs on no input file, on short files and on the pasted tables
InitWhole ==
  /\ \/ /\ inputExists = FALSE
        /\ inputContent = <<>>
        /\ outputExists \in BOOLEAN
     \/ /\ inputExists = TRUE
        /\ inputContent \in SmallFiles
        /\ outputExists \in BOOLEAN
     \/ /\ inputExists = TRUE
        /\ inputContent \in TableFiles
        /\ outputExists \in BOOLEAN
  /\ Fresh

----------------------------------------------------------------------------
(* main                                                                    *)

\* process.exit(0)
MissingInputExitZero ==
  /\ pc = "start"
  /\ ~inputExists
  /\ console' = console \o <<Msg("error", "Missing", 0), Msg("error", "Create", 0)>>
  /\ exitCode' = 0
  /\ pc' = "exited"
  /\ UNCHANGED <<env, outputExists, outputContent, lines, idx, mapping,
                 parsedCount, line, result, wrote, run, outputAtStart>>

\* if (!fs.existsSync(INPUT)) { console.error x2; process.exit(1) }
MissingInput ==
  /\ pc = "start"
  /\ ~inputExists
  /\ console' = console \o <<Msg("error", "Missing", 0), Msg("error", "Create", 0)>>
  /\ exitCode' = 1
  /\ pc' = "exited"
  /\ UNCHANGED <<env, outputExists, outputContent, lines, idx, mapping,
                 parsedCount, line, result, wrote, run, outputAtStart>>

\* readFileSync, split, mapping = {}, parsedCount = 0
ReadInput ==
  /\ pc = "start"
  /\ inputExists
  /\ lines' = SplitLines(inputContent)
  /\ idx' = 1
  /\ mapping' = <<>>
  /\ parsedCount' = 0
  /\ pc' = "loop"
  /\ UNCHANGED <<env, outputExists, outputContent, line, result, console,
                 exitCode, wrote, run, outputAtStart>>

\* what the for loop has built: st.mapping, st.parsedCount, the index
\* st.idx of the next line, and the line parseLine got last with its result
LoopState(m, n, i, l, r) ==
  [mapping |-> m, parsedCount |-> n, idx |-> i, line |-> l, result |-> r]

\* one iteration of the for loop on the line l: a Row goes into mapping
\* and is counted, null is skipped, and a throw leaves the loop
LoopBody(st, l) ==
  The({ LoopState(IF r.kind = "row"
                  THEN Put(st.mapping, r.key, r.assignment) ELSE st.mapping,
                  IF r.kind = "row" THEN st.parsedCount + 1 ELSE st.parsedCount,
                  IF r.kind = "throw" THEN st.idx ELSE st.idx + 1,
                  l, r) :
        r \in {parseLine(l, TRUE)} })

\* the iterations on ls[lo..hi] in order, ended by the first throw (the
\* range is halved so that the evaluation stays shallow on long files)
RECURSIVE LoopRange(_, _, _, _)
LoopRange(st, ls, lo, hi) ==
  IF st.result.kind = "throw" \/ lo > hi THEN st
  ELSE IF lo = hi THEN LoopBody(st, ls[lo])
  ELSE The({ LoopRange(half, ls, ((lo + hi) \div 2) + 1, hi) :
             half \in {LoopRange(st, ls, lo, (lo + hi) \div 2)} })

\* the state after the iterations that led to st.  Nothing catches a throw
\* of parseLine: the process prints the error and exits with status 1.
LoopTo(st) ==
  /\ mapping' = st.mapping
  /\ parsedCount' = st.parsedCount
  /\ idx' = st.idx
  /\ line' = st.line
  /\ result' = st.result
  /\ console' = IF st.result.kind = "throw"
                THEN Append(console, Msg("error", "Could not reliably parse groups from line", st.idx))
                ELSE console
  /\ exitCode' = IF st.result.kind = "throw" THEN 1 ELSE exitCode
  /\ pc' = IF st.result.kind = "throw" THEN "exited" ELSE pc
  /\ UNCHANGED <<env, outputExists, outputContent, lines, wrote, run,
                 outputAtStart>>

\* one iteration of the for loop
LoopStep ==
  /\ pc = "loop"
  /\ idx <= Len(lines)
  /\ \E st \in {LoopBody(LoopState(mapping, parsedCount, idx, line, result),
                          lines[idx])} :
       LoopTo(st)

\* the whole for loop
RunLoop ==
  /\ pc = "loop"
  /\ idx = 1
  /\ \E st \in {LoopRange(LoopState(mapping, parsedCount, idx, line, result),
                           lines, 1, Len(lines))} :
       LoopTo(st)

\* fs.writeFileSync(OUTPUT, JSON.stringify(mapping, null, 2), "utf8")
WriteOutput ==
  /\ pc = "loop"
  /\ idx > Len(lines)
  /\ outputExists' = TRUE
  /\ outputContent' = WriteFile(outputContent, Stringify(mapping))
  /\ wrote' = TRUE
  /\ pc' = "report"
  /\ UNCHANGED <<env, lines, idx, mapping, parsedCount, line, result, console,
                 exitCode, run, outputAtStart>>

\* the three console.log lines, the warning, and the normal end of main
Report ==
  /\ pc = "report"
  /\ console' = console
        \o <<Msg("log", "Wrote", 0),
             Msg("log", "Parsed rows", parsedCount),
             Msg("log", "Unique keys", Len(mapping))>>
        \o (IF Mismatch(Len(mapping))
            THEN <<Msg("warn", "Warning: expected", Len(mapping)),
                   Msg("warn", "This can happen", 0)>>
            ELSE <<>>)
  /\ exitCode' = 0
  /\ pc' = "exited"
  /\ UNCHANGED <<env, outputExists, outputContent, lines, idx, mapping,
                 parsedCount, line, result, wrote, run, outputAtStart>>

\* the operator runs the script again on the unchanged input file
Rerun ==
  /\ pc = "exited"
  /\ run < MaxRuns
  /\ run' = run + 1
  /\ outputAtStart' = [exists |-> outputExists, content |-> outputContent]
  /\ pc' = "start"
  /\ lines' = <<>>
  /\ idx' = 0
  /\ mapping' = <<>>
  /\ parsedCount' = 0
  /\ line' = <<>>
  /\ result' = NullResult
  /\ console' = <<>>
  /\ exitCode' = -1
  /\ wrote' = FALSE
  /\ UNCHANGED <<env, outputExists, outputContent>>

Next ==
  \/ MissingInput
  \/ ReadInput
  \/ LoopStep
  \/ WriteOutput
  \/ Report
  \/ Rerun

Spec == Init /\ [][Next]_vars

\* the same program with the for loop taken as one step
NextWhole ==
  \/ MissingInput
  \/ ReadInput
  \/ RunLoop
  \/ WriteOutput
  \/ Report
  \/ Rerun

SpecWhole == InitWhole /\ [][NextWhole]_vars

----------------------------------------------------------------------------
(* What a line contains, stated on the positions of the raw line and       *)
(* independently of the scanning operators above.                          *)

\* a letter A-L with no word character on either side
StandaloneAt(s, i) ==
  /\ IsGroupLetter(s[i])
  /\ (i = 1 \/ ~IsWord(s[i - 1]))
  /\ (i = Len(s) \/ ~IsWord(s[i + 1]))

StandalonePositions(s) == {i \in 1..Len(s) : StandaloneAt(s, i)}

StandaloneLetters(s) == {s[i] : i \in StandalonePositions(s)}

\* the positions where a token '3' + letter A-L starts, with no word
\* character on either side of the token
TokenStarts(s) ==
  {i \in 1..(Len(s) - 1) :
     /\ s[i] = 51
     /\ IsGroupLetter(s[i + 1])
     /\ (i = 1 \/ ~IsWord(s[i - 1]))
     /\ (i + 1 = Len(s) \/ ~IsWord(s[i + 2]))}

\* the starts of the last 8 tokens of the line
LastStarts(s) ==
  The({ {i \in T : Cardinality({j \in T : j > i}) < 8} : T \in {TokenStarts(s)} })

\* the k-th of the last 8 tokens
NthLastToken(s, k) ==
  The({ <<51, s[(CHOOSE i \in L : Cardinality({j \in L : j < i}) = k - 1) + 1]>> :
        L \in {LastStarts(s)} })

LastTokenLetters(s) == {s[i + 1] : i \in LastStarts(s)}

\* the line has 8 tokens but 8 groups follow neither from its standalone
\* letters nor from the letters of its last 8 tokens
Unresolvable(s) ==
  /\ Cardinality(TokenStarts(s)) >= 8
  /\ Cardinality(StandaloneLetters(s)) # 8
  /\ Cardinality(LastTokenLetters(s)) # 8

GivesRow(s) == Cardinality(TokenStarts(s)) >= 8 /\ ~Unresolvable(s)

\* the groups of a line that gives a Row
GroupSet(s) ==
  IF Cardinality(StandaloneLetters(s)) = 8
  THEN StandaloneLetters(s) ELSE LastTokenLetters(s)

Range(f) == {f[i] : i \in DOMAIN f}

Warned == \E i \in 1..Len(console) : console[i].stream = "warn"

\* parseLine has just returned or thrown: line is the line it was given
\* and result is what it did
JustParsed ==
  \/ pc = "loop" /\ idx > 1
  \/ pc = "exited" /\ result.kind = "throw"

OutputUntouched ==
  /\ outputExists = outputAtStart.exists
  /\ outputContent = outputAtStart.content

----------------------------------------------------------------------------
(* Claims                                                                  *)

\* C1: when parseLine returns a Row, its key has exactly 8 characters, each
\* in A..L, in strictly ascending order (hence pairwise distinct), and the
\* set of its characters is the set of the line's distinct standalone
\* letters when there are exactly 8 of them, and otherwise the set of the
\* letters of the line's last 8 tokens.
C1_KeyIsSortedGroupSet ==
  (JustParsed /\ result.kind = "row") =>
    LET k == result.key
    IN  /\ Len(k) = 8
        /\ \A i \in 1..8 : k[i] \in 65..76
        /\ \A i \in 1..7 : k[i] < k[i + 1]
        /\ Cardinality(StandaloneLetters(line)) = 8
             => Range(k) = StandaloneLetters(line)
        /\ Range(k) = GroupSet(line)

\* a Row whose 8 standalone letters do not stand in alphabetical order
C1_Witness ==
  /\ JustParsed
  /\ result.kind = "row"
  /\ Cardinality(StandaloneLetters(line)) = 8
  /\ \E i, j \in StandalonePositions(line) : i < j /\ line[i] > line[j]

\* C2: when parseLine returns a Row, the assignment has exactly the keys
\* 1A,1B,1D,1E,1G,1I,1K,1L in that order, and the value of the i-th slot is
\* the i-th of the last 8 tokens of the line; tokens before the last 8 are
\* ignored.
C2_AssignmentIsLastEight ==
  (JustParsed /\ result.kind = "row") =>
    LET a == result.assignment
    IN  /\ Len(a) = 8
        /\ [i \in 1..8 |-> a[i][1]] =
             << <<49, 65>>, <<49, 66>>, <<49, 68>>, <<49, 69>>,
                <<49, 71>>, <<49, 73>>, <<49, 75>>, <<49, 76>> >>
        /\ \A i \in 1..8 : a[i][2] = NthLastToken(line, i)

\* a Row from a line with more than 8 tokens, whose first 8 tokens are not
\* its last 8
C2_Witness ==
  /\ JustParsed
  /\ result.kind = "row"
  /\ Cardinality(TokenStarts(line)) >= 9
  /\ LET first == CHOOSE i \in TokenStarts(line) : \A j \in TokenStarts(line) : i <= j
     IN  <<51, line[first + 1]>> # result.assignment[1][2]

\* C3: a loop iteration on a line with fewer than 8 tokens gets null from
\* parseLine, does not end the run, and leaves the aggregate and the
\* parsed-row count unchanged, whatever standalone letters the line holds.
C3_ShortLineSkipped ==
  [][ (pc = "loop" /\ idx <= Len(lines)
       /\ Cardinality(TokenStarts(lines[idx])) < 8)
      => /\ result'.kind = "null"
         /\ pc' = "loop"
         /\ exitCode' = -1
         /\ idx' = idx + 1
         /\ mapping' = mapping
         /\ parsedCount' = parsedCount ]_vars

\* a line with 7 tokens and 8 distinct standalone letters was skipped
C3_Witness ==
  /\ pc = "loop"
  /\ idx > 1
  /\ line = lines[idx - 1]
  /\ result.kind = "null"
  /\ Cardinality(TokenStarts(line)) = 7
  /\ Cardinality(StandaloneLetters(line)) = 8

\* C4: the output is written only after every line was processed, and when
\* some line of the input is unresolvable the run ends with status 1 on an
\* error, without having written the output file.
C4_FatalLineNoOutput ==
  /\ wrote => /\ idx > Len(lines)
              /\ result.kind # "throw"
  /\ (inputExists /\ pc \in {"report", "exited"}
      /\ \E i \in 1..Len(lines) : Unresolvable(lines[i]))
     => /\ pc = "exited"
        /\ exitCode = 1
        /\ result.kind = "throw"
        /\ Unresolvable(line)
        /\ console[Len(console)].stream = "error"
        /\ ~wrote
        /\ OutputUntouched

\* the run aborted after it had parsed a row
C4_Witness ==
  /\ pc = "exited"
  /\ result.kind = "throw"
  /\ parsedCount >= 1
  /\ Len(mapping) >= 1

\* C5: a loop iteration on a line that gives a Row adds one to the
\* parsed-row count; the aggregate then maps the Row's key to this line's
\* assignment, keeps every other entry, and grows by one entry only when
\* the key was not there; a line that gives no Row changes neither.  So the
\* parsed-row count counts the Rows and is never below the number of keys.
C5_LastWriteWins ==
  [][ (pc = "loop" /\ idx <= Len(lines))
      => LET s == lines[idx]
             gs == GroupSet(s)
             had == \E e \in 1..Len(mapping) : Range(mapping[e][1]) = gs
             toks == [i \in 1..8 |-> NthLastToken(s, i)]
         IN  IF GivesRow(s)
             THEN /\ parsedCount' = parsedCount + 1
                  /\ Len(mapping') = IF had THEN Len(mapping) ELSE Len(mapping) + 1
                  /\ \A e \in 1..Len(mapping) :
                       /\ mapping'[e][1] = mapping[e][1]
                       /\ Range(mapping[e][1]) # gs
                            => mapping'[e][2] = mapping[e][2]
                  /\ \E e \in 1..Len(mapping') :
                       /\ Range(mapping'[e][1]) = gs
                       /\ [i \in 1..8 |-> mapping'[e][2][i][2]] = toks
                  /\ Cardinality({mapping'[e][1] : e \in 1..Len(mapping')}) = Len(mapping')
                  /\ parsedCount' >= Len(mapping')
             ELSE /\ parsedCount' = parsedCount
                  /\ mapping' = mapping ]_vars

\* a second line with the key of an earlier one replaced that line's
\* different assignment
C5_Witness ==
  /\ pc = "loop"
  /\ idx > 2
  /\ result.kind = "row"
  /\ parsedCount > Len(mapping)
  /\ \E e \in 1..Len(mapping) :
       /\ mapping[e][1] = result.key
       /\ mapping[e][2] = result.assignment
  /\ \E i \in 1..(idx - 2) :
       /\ GivesRow(lines[i])
       /\ GroupSet(lines[i]) = GroupSet(line)
       /\ NthLastToken(lines[i], 1) # NthLastToken(line, 1)

\* C6 (under SpecWhole): the warning is printed only after the output was written, and a run
\* that ends with status 0 has written the whole aggregate to the output
\* file and has printed the warning exactly when the number of keys is not
\* 495; a run on an existing input that met no fatal line ends with status 0.
C6_WarningIffMismatch ==
  /\ Warned => wrote
  /\ (pc = "exited" /\ inputExists /\ result.kind # "throw") => exitCode = 0
  /\ (pc = "exited" /\ exitCode = 0)
     => /\ wrote
        /\ outputExists
        /\ outputContent = Stringify(mapping)
        /\ Warned <=> (Cardinality({mapping[e][1] : e \in 1..Len(mapping)}) # 495)

\* a run that found the 495 keys ended without the warning
C6_Witness ==
  /\ pc = "exited"
  /\ exitCode = 0
  /\ Len(mapping) = 495
  /\ ~Warned

\* C7: with the input file missing the run only prints the two lines of
\* guidance and exits with status 1: nothing is read or parsed and the
\* output file is left as it was.
C7_MissingInput ==
  ~inputExists =>
    /\ pc \in {"start", "exited"}
    /\ lines = <<>>
    /\ idx = 0
    /\ parsedCount = 0
    /\ mapping = <<>>
    /\ ~wrote
    /\ OutputUntouched
    /\ pc = "exited" => /\ exitCode = 1
                        /\ Len(console) = 2
                        /\ \A i \in 1..2 : console[i].stream = "error"

\* the run ended on a missing input with an older output file in place
C7_Witness ==
  /\ ~inputExists
  /\ pc = "exited"
  /\ outputExists
  /\ outputContent = StaleOutput

\* C8: a run that follows another run on the same input leaves the output
\* file exactly as the earlier run left it.
C8_SecondRunSameOutput ==
  (run >= 2 /\ pc = "exited") => OutputUntouched

\* the second run wrote an aggregate of two keys built from three rows
C8_Witness ==
  /\ run = 2
  /\ pc = "exited"
  /\ exitCode = 0
  /\ wrote
  /\ Len(mapping) >= 2
  /\ parsedCount > Len(mapping)

\* C9: on the line parseLine was just given, the extraction with the lookbehind
\* and the extraction of the catch branch yield the same list, one letter
\* per standalone position of the line (so no letter of a 3X token), and
\* parseLine on the path of the catch branch gives the result it gave on
\* the path of the try branch.
C9_BothExtractionsAgree ==
  JustParsed =>
    /\ \A t \in {Trim(line)} :
         \A rough \in {GroupMatches(t, FALSE)} :
           /\ GroupMatches(t, TRUE) = rough
           /\ Len(rough) = Cardinality(StandalonePositions(line))
           /\ Range(rough) = StandaloneLetters(line)
    /\ parseLine(line, FALSE) = result

\* a Row from a line with 8 tokens and with standalone letters
C9_Witness ==
  /\ JustParsed
  /\ result.kind = "row"
  /\ Cardinality(TokenStarts(line)) >= 8
  /\ Cardinality(StandalonePositions(line)) >= 8

\* C10: when parseLine returns a Row for a line whose distinct standalone
\* letters are not exactly 8, the 8 assignment values are pairwise distinct
\* and their letters are the letters of the key.
C10_FallbackKeyMatchesAssignment ==
  (JustParsed /\ result.kind = "row" /\ Cardinality(StandaloneLetters(line)) # 8)
    => LET a == result.assignment
       IN  /\ \A i, j \in 1..8 : i # j => a[i][2] # a[j][2]
           /\ {a[i][2][2] : i \in 1..8} = Range(result.key)

\* a Row derived from the tokens, after a Row of 8 standalone letters whose
\* assignment names other groups than its key went into the aggregate
C10_Witness ==
  /\ JustParsed
  /\ result.kind = "row"
  /\ Cardinality(StandaloneLetters(line)) # 8
  /\ \E e \in 1..Len(mapping) :
       {mapping[e][2][i][2][2] : i \in 1..8} # Range(mapping[e][1])

====
